---- MODULE Spec2Model ----
(***************************************************************************)
(* State-machine model of the collection retrieval and comparative         *)
(* analytics engine of deepcogs:                                           *)
(*   - the collection route   (GET,  src/unnamed/part_003)                 *)
(*   - the recommendation route (POST, src/unnamed/part_001)               *)
(*   - the friend comparison  (handleSearch, src/unnamed/part_005)         *)
(*   - the release route      (GET,  src/unnamed/part_000)                 *)
(*   - the country fetch      (fetchCountryData,                           *)
(*                             src/src/components/country-distribution.tsx)*)
(* Each route is one specification over its own variables; the variables   *)
(* of the other routes stay at their initial values.                       *)
(***************************************************************************)
EXTENDS Integers, Sequences, FiniteSets, TLC

VARIABLES
    \* ---- collection route (part_003) ----
    fpc,            \* position of GET: "idle", "await" (a page request is
                    \* outstanding), "delay" (the 100 ms timer), "done"
    consumerCreds,  \* DISCOGS_CONSUMER_KEY and _SECRET are both set
    sessionTokens,  \* both access-token cookies are set
    client,         \* "none", "auth" (getCollection), "public" (getPublicCollection)
    page,           \* loop variable `page` (1 while the first page is awaited)
    total,          \* firstPage.pagination.items, -1 before page 1 answered
    pagesToFetch,   \* Math.min(Math.ceil(total / 100), 5), -1 before page 1 answered
    releases,       \* accumulated releases
    calls,          \* catalog-client calls issued so far, in order: [op, page]
    inflight,       \* pages whose request is outstanding
    failedPage,     \* page whose request was rejected, 0 if none
    answers,        \* what the catalog answered to the page requests, in order
    response,       \* the HTTP response of GET, status 0 while none
    \* ---- recommendation route (part_001) ----
    rpc,            \* position of POST: "idle", "searching" (Promise.all is
                    \* awaited), "done"
    genres,         \* body.genres: the tally, a sequence of [name, count]
    ownedSet,       \* new Set(body.ownedMasterIds)
    gaps,           \* const gaps
    genresToSearch, \* const genresToSearch
    searchCalls,    \* client.search calls issued so far: the genre of each
    pending,        \* indices of genresToSearch whose search is outstanding
    outcome,        \* per index, what client.search did: kind "pending",
                    \* "throw", or "ok" with the results it answered
    results,        \* per index, what the search promise settled to
    outOfOrder,     \* some search settled while one issued before it was pending
    rresponse,      \* the HTTP response of POST, status 0 while none
    \* ---- friend comparison (part_005) ----
    cpc,            \* position of handleSearch: "idle", "collection",
                    \* "friendWants", "myWants" (the fetch awaited), "done"
    myCollection,   \* prop myCollection
    service,        \* what the catalog holds: the friend's collection and both
                    \* wantlists
    friendUsername, \* state friendUsername (the input field)
    searching,      \* state searching
    error,          \* state error, "null" for null
    result,         \* state result
    friendCollection,   \* const friendCollection
    comparison,     \* overlap, onlyMe, onlyFriend, compatibilityScore of the run
    youCanOffer,    \* let youCanOffer
    theyCanOffer,   \* let theyCanOffer
    fetchLog,       \* URLs fetched so far, in order
    wantsOutcome,   \* how each wantlist fetch ended: "none", "ok", "notok", "throw"
    \* ---- release route (part_000) ----
    relpc,          \* position of GET: "idle", "await" (getRelease is
                    \* outstanding), "done"
    releaseId,      \* const releaseId = parseInt(id, 10)
    relCalls,       \* catalog-client calls issued so far: [op, id]
    relResponse,    \* the HTTP response of GET, status 0 while none
    \* ---- country fetch (country-distribution.tsx) ----
    ypc,            \* position of fetchCountryData: "idle", "await" (the fetch
                    \* of a release is outstanding), "delay" (the 100 ms timer)
    releaseIds,     \* prop releases: the id of each release
    catalog,        \* what the release route answers for the releases 2..50
                    \* (middle) and for the later ones (beyond)
    countryData,    \* state countryData: release id -> country
    newCountryData, \* const newCountryData
    releasesToFetch,    \* const releasesToFetch
    batch,          \* const batch
    completed,      \* let completed
    fetching,       \* state fetching
    fetchProgress,  \* state fetchProgress, as the ratio [num, den]
    fetchError,     \* state fetchError, "null" for null
    issued,         \* release ids requested by the current invocation, in order
    outstanding,    \* release ids whose request is outstanding
    requested,      \* release ids requested by any invocation so far
    anyFailed       \* some request was answered not OK or was rejected

envVars == <<consumerCreds, sessionTokens>>

fetchVars == <<fpc, client, page, total, pagesToFetch, releases, calls, inflight,
               failedPage, answers, response>>

recVars == <<rpc, genres, ownedSet, gaps, genresToSearch, searchCalls, pending,
             outcome, results, outOfOrder, rresponse>>

cmpVars == <<cpc, myCollection, service, friendUsername, searching, error, result,
             friendCollection, comparison, youCanOffer, theyCanOffer, fetchLog,
             wantsOutcome>>

relVars == <<relpc, releaseId, relCalls, relResponse>>

ctyVars == <<ypc, releaseIds, catalog, countryData, newCountryData, releasesToFetch,
             batch, completed, fetching, fetchProgress, fetchError, issued,
             outstanding, requested, anyFailed>>

vars == <<envVars, fetchVars, recVars, cmpVars, relVars, ctyVars>>

-----------------------------------------------------------------------------
(* Generic helpers                                                         *)

Min(a, b) == IF a <= b THEN a ELSE b

Max(a, b) == IF a >= b THEN a ELSE b

\* Math.ceil(a / b) for a >= 0, b > 0
CeilDiv(a, b) == (a + b - 1) \div b

Range(s) == {s[i] : i \in DOMAIN s}

\* the sequences over S of length at most n
SeqsUpTo(S, n) == UNION {[1..k -> S] : k \in 0..n}

-----------------------------------------------------------------------------
(* Collection route: GET /api/collection                                   *)

\* page size passed to getCollection / getPublicCollection
PageSize == 100

\* "fetch up to 500 releases (5 pages)"
MaxPages == 5

\* a page of the model holds 0..MaxPageItems releases, or a full page
MaxPageItems == 1

PageLens == (0..MaxPageItems) \cup {PageSize}

\* the totals page 1 may report: around every page boundary up to past the cap
Totals == {t \in 0..(PageSize * (MaxPages + 1) + 1) :
              t % PageSize \in {0, 1, PageSize - 1}}

\* the releases of a page response holding n items
PageItems(p, n) == [i \in 1..n |-> <<p, i>>]

\* variant without the cap of 5 pages
PagesToFetchNoCap(t) == CeilDiv(t, PageSize)

\* variant that reads the first page only
PagesToFetchFirstOnly(t) == Min(CeilDiv(t, PageSize), 1)

\* const pagesToFetch = Math.min(Math.ceil(total / 100), 5), authenticated
\* branch (line 50)
PagesToFetch(t) == Min(CeilDiv(t, PageSize), MaxPages)

\* the same constant of the public branch (line 66)
PagesToFetchPublic(t) == Min(CeilDiv(t, PageSize), MaxPages)

\* pagesToFetch of the branch taken with client c
PagesToFetchOf(c, t) == IF c = "auth" THEN PagesToFetch(t) ELSE PagesToFetchPublic(t)

\* variant that always reads through the authenticated operation
ReadOpAuthenticated(c) == "getCollection"

\* client.getCollection (line 45) or client.getPublicCollection (line 63)
ReadOp(c) == IF c = "auth" THEN "getCollection" ELSE "getPublicCollection"

NoResponse == [status |-> 0]

ErrorResponse(st, msg) == [status |-> st, error |-> msg]

\* variant reporting the total as fetched
CollectionResponseAllFetched(rs, t) ==
    [status |-> 200, releases |-> rs, total |-> t, fetched |-> t]

\* a page answer: ok with the count pagination.items and n releases, or a
\* rejection
PageAnswer(t, n) == [ok |-> TRUE, items |-> t, n |-> n]

PageRejected == [ok |-> FALSE, items |-> 0, n |-> 0]

\* NextResponse.json({ releases, total, fetched: releases.length })
CollectionResponse(rs, t) ==
    [status |-> 200, releases |-> rs, total |-> t, fetched |-> Len(rs)]

InitFetch ==
    /\ fpc = "idle"
    /\ client = "none"
    /\ page = 0
    /\ total = -1
    /\ pagesToFetch = -1
    /\ releases = <<>>
    /\ calls = <<>>
    /\ inflight = {}
    /\ failedPage = 0
    /\ answers = <<>>
    /\ response = NoResponse

\* GET, from entry to the first await of a page (lines 5-45 / 59-63)
FetchRequest(hasUsername) ==
    /\ fpc = "idle"
    /\ IF ~consumerCreds
         THEN /\ response' = ErrorResponse(500, "Discogs credentials not configured")
              /\ fpc' = "done"
              /\ UNCHANGED <<client, page, calls, inflight>>
         ELSE IF ~hasUsername
         THEN /\ response' = ErrorResponse(400, "Username is required")
              /\ fpc' = "done"
              /\ UNCHANGED <<client, page, calls, inflight>>
         ELSE /\ client' = IF sessionTokens THEN "auth" ELSE "public"
              /\ page' = 1
              /\ calls' = Append(calls, [op |-> ReadOp(client'), page |-> 1])
              /\ inflight' = inflight \cup {1}
              /\ fpc' = "await"
              /\ UNCHANGED response
    /\ UNCHANGED <<total, pagesToFetch, releases, failedPage, answers>>
    /\ UNCHANGED <<envVars, recVars, cmpVars, relVars, ctyVars>>

\* the loop test `page <= pagesToFetch` with loop variable p: issue page p, or
\* leave the loop and answer (lines 53-54, 69-70, 76-80)
LoopOrReturn(p, ptf, rs, t) ==
    IF p <= ptf
      THEN /\ page' = p
           /\ calls' = Append(calls, [op |-> ReadOp(client), page |-> p])
           /\ inflight' = (inflight \ {page}) \cup {p}
           /\ fpc' = "await"
           /\ UNCHANGED response
      ELSE /\ page' = p
           /\ inflight' = inflight \ {page}
           /\ fpc' = "done"
           /\ response' = CollectionResponse(rs, t)
           /\ UNCHANGED calls

\* page 1 answers with `t` reported items and `n` releases (lines 45-53,
\* 63-69)
FirstPageOk(t, n) ==
    /\ fpc = "await"
    /\ page = 1
    /\ answers' = Append(answers, PageAnswer(t, n))
    /\ total' = t
    /\ pagesToFetch' = PagesToFetchOf(client, t)
    /\ releases' = PageItems(1, n)
    /\ LoopOrReturn(2, PagesToFetchOf(client, t), PageItems(1, n), t)
    /\ UNCHANGED <<client, failedPage>>
    /\ UNCHANGED <<envVars, recVars, cmpVars, relVars, ctyVars>>

\* page k >= 2 answers with n releases; the handler then sleeps (lines 54-57)
NextPageOk(n) ==
    /\ fpc = "await"
    /\ page >= 2
    /\ answers' = Append(answers, PageAnswer(total, n))
    /\ releases' = releases \o PageItems(page, n)
    /\ inflight' = inflight \ {page}
    /\ fpc' = "delay"
    /\ UNCHANGED <<client, page, total, pagesToFetch, calls, failedPage, response>>
    /\ UNCHANGED <<envVars, recVars, cmpVars, relVars, ctyVars>>

\* the 100 ms timer fires: page++ and the loop test (lines 53, 57)
DelayElapsed ==
    /\ fpc = "delay"
    /\ LoopOrReturn(page + 1, pagesToFetch, releases, total)
    /\ UNCHANGED <<client, total, pagesToFetch, releases, failedPage, answers>>
    /\ UNCHANGED <<envVars, recVars, cmpVars, relVars, ctyVars>>

\* variant where a rejected page ends the loop and what was read is returned
PageFailsSoft ==
    /\ fpc = "await"
    /\ failedPage' = page
    /\ answers' = Append(answers, PageRejected)
    /\ inflight' = inflight \ {page}
    /\ response' = CollectionResponse(releases, total)
    /\ fpc' = "done"
    /\ UNCHANGED <<client, page, total, pagesToFetch, releases, calls>>
    /\ UNCHANGED <<envVars, recVars, cmpVars, relVars, ctyVars>>

\* the outstanding page request is rejected: the catch of lines 81-87
PageFails ==
    /\ fpc = "await"
    /\ failedPage' = page
    /\ answers' = Append(answers, PageRejected)
    /\ inflight' = inflight \ {page}
    /\ response' = ErrorResponse(500, "Failed to fetch collection")
    /\ fpc' = "done"
    /\ UNCHANGED <<client, page, total, pagesToFetch, releases, calls>>
    /\ UNCHANGED <<envVars, recVars, cmpVars, relVars, ctyVars>>

NextFetch ==
    \/ \E u \in BOOLEAN : FetchRequest(u)
    \/ \E t \in Totals, n \in PageLens : FirstPageOk(t, n)
    \/ \E n \in PageLens : NextPageOk(n)
    \/ DelayElapsed
    \/ PageFails


-----------------------------------------------------------------------------
(* Recommendation route: POST /api/recommendations                         *)

MAJOR_GENRES ==
    << "Electronic", "Rock", "Jazz", "Hip Hop", "Classical",
       "Folk, World, & Country", "Funk / Soul", "Pop", "Reggae", "Blues",
       "Latin", "Stage & Screen" >>

\* .slice(0, n)
Slice(s, n) == SubSeq(s, 1, Min(n, Len(s)))

\* [...new Set(s)]: the elements of s in order of first occurrence
RECURSIVE Dedup(_)
Dedup(s) ==
    IF s = <<>> THEN <<>>
    ELSE LET d == Dedup(SubSeq(s, 1, Len(s) - 1))
             x == s[Len(s)]
         IN  IF x \in Range(d) THEN d ELSE Append(d, x)

\* genres.reduce((sum, g) => sum + g.count, 0)
RECURSIVE TotalReleases(_)
TotalReleases(gs) ==
    IF gs = <<>> THEN 0 ELSE Head(gs).count + TotalReleases(Tail(gs))

\* genrePercentages.find((g) => g.name === genre): its index, 0 for undefined
FindGenre(gs, name) ==
    IF \E i \in DOMAIN gs : gs[i].name = name
      THEN CHOOSE i \in DOMAIN gs :
               gs[i].name = name /\ \A j \in 1..(i - 1) : gs[j].name # name
      ELSE 0

\* variant with `<= 10` for `< 10`
PercentageBelowLoose(count, tot) == tot # 0 /\ count * 100 <= 10 * tot

\* ((count / totalReleases) * 100) < 10 on doubles, count >= 0 and
\* totalReleases >= 0: 0 / 0 is NaN and n / 0 is Infinity, neither is < 10;
\* otherwise the quotient compares as the exact ratio does (count / total is the
\* double nearest 0.1 exactly when the ratio is 1/10, and that double times 100
\* rounds to 10)
PercentageBelow(count, tot) == tot # 0 /\ count * 100 < 10 * tot

\* variant without the .slice(0, 3)
GapsNoCap(gs) ==
    SelectSeq(MAJOR_GENRES,
              LAMBDA g : \/ FindGenre(gs, g) = 0
                         \/ PercentageBelow(gs[FindGenre(gs, g)].count,
                                            TotalReleases(gs)))

\* MAJOR_GENRES.filter((genre) => !userGenre || userGenre.percentage < 10)
\*             .slice(0, 3)
Gaps(gs) ==
    Slice(SelectSeq(MAJOR_GENRES,
                    LAMBDA g : \/ FindGenre(gs, g) = 0
                               \/ PercentageBelow(gs[FindGenre(gs, g)].count,
                                                  TotalReleases(gs))),
          3)

\* genrePercentages.filter((g) => MAJOR_GENRES.includes(g.name)).slice(0, 2)
\*                 .map((g) => g.name)
TopGenres(gs) ==
    LET kept == Slice(SelectSeq(gs, LAMBDA g : g.name \in Range(MAJOR_GENRES)), 2)
    IN  [i \in DOMAIN kept |-> kept[i].name]

\* variant without the Set: [...gaps, ...topGenres].slice(0, 4)
GenresToSearchNoDedup(gs) == Slice(Gaps(gs) \o TopGenres(gs), 4)

\* [...new Set([...gaps, ...topGenres])].slice(0, 4)
GenresToSearch(gs) == Slice(Dedup(Gaps(gs) \o TopGenres(gs)), 4)

\* r.master_id || r.id
ResolvedMasterId(r) == IF r.master_id # 0 THEN r.master_id ELSE r.id

\* a string is the sequence of its characters
Separator == <<" ", "-", " ">>

UnknownTitle == <<"U", "n", "k", "n", "o", "w", "n">>

UnknownArtist == UnknownTitle \o <<" ", "A", "r", "t", "i", "s", "t">>

\* the position of the first " - " in cs, 0 when there is none
FirstSeparator(cs) ==
    LET at == {i \in 1..(Len(cs) - 2) : SubSeq(cs, i, i + 2) = Separator}
    IN  IF at = {} THEN 0 ELSE CHOOSE i \in at : \A j \in at : i <= j

\* cs.split(" - ")
RECURSIVE Split(_)
Split(cs) ==
    IF FirstSeparator(cs) = 0 THEN <<cs>>
    ELSE <<SubSeq(cs, 1, FirstSeparator(cs) - 1)>>
             \o Split(SubSeq(cs, FirstSeparator(cs) + 3, Len(cs)))

\* parts.join(" - ")
RECURSIVE Join(_)
Join(parts) ==
    IF parts = <<>> THEN <<>>
    ELSE IF Len(parts) = 1 THEN parts[1]
    ELSE parts[1] \o Separator \o Join(Tail(parts))

\* const [artist, ...titleParts] = (r.title || "").split(" - ");
\* title: titleParts.join(" - ") || r.title || "Unknown",
\* artist: artist || "Unknown Artist"            (lines 128-133)
ParseTitle(t) ==
    LET parts == Split(t)
        joined == Join(Tail(parts))
    IN  [title |-> IF joined # <<>> THEN joined
                   ELSE IF t # <<>> THEN t ELSE UnknownTitle,
         artist |-> IF Head(parts) # <<>> THEN Head(parts) ELSE UnknownArtist]

\* .slice(0, 8) of line 126
MaxCandidates == 8

\* variant without the .slice(0, 8)
FilteredNoCap(rs, owned) ==
    LET kept == SelectSeq(rs, LAMBDA r : /\ ResolvedMasterId(r) # 0
                                         /\ ResolvedMasterId(r) \notin owned)
    IN  [i \in DOMAIN kept |->
            [id |-> kept[i].id, masterId |-> ResolvedMasterId(kept[i]),
             title |-> ParseTitle(kept[i].title).title,
             artist |-> ParseTitle(kept[i].title).artist]]

\* results.filter(...).slice(0, 8).map(...)  (lines 121-140); of the mapped
\* fields, id, masterId, title and artist
Filtered(rs, owned) ==
    LET kept == Slice(SelectSeq(rs, LAMBDA r : /\ ResolvedMasterId(r) # 0
                                               /\ ResolvedMasterId(r) \notin owned),
                      MaxCandidates)
    IN  [i \in DOMAIN kept |->
            [id |-> kept[i].id, masterId |-> ResolvedMasterId(kept[i]),
             title |-> ParseTitle(kept[i].title).title,
             artist |-> ParseTitle(kept[i].title).artist]]

\* variant that never gives the gap reason
ReasonAlwaysLove(genre, gapSeq) == "More of what you love"

\* const isGap = gaps.includes(genre); const reason = isGap ? ... : ...
Reason(genre, gapSeq) ==
    IF genre \in Range(gapSeq) THEN "Expand your horizons" ELSE "More of what you love"

Null == [kind |-> "null"]

Unsettled == [kind |-> "unsettled"]

\* what the callback of searchPromises returns once the search answered rs
\* (lines 142-149)
BucketOrNull(genre, gapSeq, rs, owned) ==
    IF Len(Filtered(rs, owned)) > 0
      THEN [kind |-> "bucket", genre |-> genre, reason |-> Reason(genre, gapSeq),
            releases |-> Filtered(rs, owned)]
      ELSE Null

\* variant that pushes each value as its search completes
StoreByCompletion(arr, i, v) ==
    LET k == CHOOSE j \in DOMAIN arr :
                 arr[j] = Unsettled /\ \A h \in 1..(j - 1) : arr[h] # Unsettled
    IN  [arr EXCEPT ![k] = v]

\* Promise.all keeps the value of promise i at index i
Store(arr, i, v) == [arr EXCEPT ![i] = v]

\* results.filter((r) => r !== null), bucket fields only
Recommendations(arr) ==
    LET kept == SelectSeq(arr, LAMBDA b : b # Null)
    IN  [i \in DOMAIN kept |->
            [genre |-> kept[i].genre, reason |-> kept[i].reason,
             releases |-> kept[i].releases]]

InitRec ==
    /\ rpc = "idle"
    /\ genres = <<>>
    /\ ownedSet = {}
    /\ gaps = <<>>
    /\ genresToSearch = <<>>
    /\ searchCalls = <<>>
    /\ pending = {}
    /\ outcome = <<>>
    /\ results = <<>>
    /\ outOfOrder = FALSE
    /\ rresponse = NoResponse

\* POST, from entry to `await Promise.all(searchPromises)`: every callback of
\* the map runs up to its `await client.search` (lines 26-108, 156)
RecRequest(gs, owned) ==
    /\ rpc = "idle"
    /\ IF ~consumerCreds
         THEN /\ rresponse' = ErrorResponse(500, "Discogs credentials not configured")
              /\ rpc' = "done"
              /\ UNCHANGED <<genres, ownedSet, gaps, genresToSearch, searchCalls,
                             pending, outcome, results>>
         ELSE IF ~sessionTokens
         THEN /\ rresponse' = ErrorResponse(401, "Not authenticated")
              /\ rpc' = "done"
              /\ UNCHANGED <<genres, ownedSet, gaps, genresToSearch, searchCalls,
                             pending, outcome, results>>
         ELSE /\ genres' = gs
              /\ ownedSet' = owned
              /\ gaps' = Gaps(gs)
              /\ genresToSearch' = GenresToSearch(gs)
              /\ searchCalls' = GenresToSearch(gs)
              /\ pending' = DOMAIN GenresToSearch(gs)
              /\ outcome' = [i \in DOMAIN GenresToSearch(gs) |-> [kind |-> "pending"]]
              /\ results' = [i \in DOMAIN GenresToSearch(gs) |-> Unsettled]
              /\ rpc' = "searching"
              /\ UNCHANGED rresponse
    /\ UNCHANGED outOfOrder
    /\ UNCHANGED <<envVars, fetchVars, cmpVars, relVars, ctyVars>>

\* client.search of index i answers rs; the callback filters and returns
SearchResolves(i, rs) ==
    /\ rpc = "searching"
    /\ i \in pending
    /\ pending' = pending \ {i}
    /\ outcome' = [outcome EXCEPT ![i] = [kind |-> "ok", results |-> rs]]
    /\ results' = Store(results, i, BucketOrNull(genresToSearch[i], gaps, rs, ownedSet))
    /\ outOfOrder' = (outOfOrder \/ \E j \in pending : j < i)
    /\ UNCHANGED <<rpc, genres, ownedSet, gaps, genresToSearch, searchCalls,
                   rresponse>>
    /\ UNCHANGED <<envVars, fetchVars, cmpVars, relVars, ctyVars>>

\* variant without the callback's catch: Promise.all rejects into the outer catch
SearchRejectsAborts(i) ==
    /\ rpc = "searching"
    /\ i \in pending
    /\ pending' = pending \ {i}
    /\ outcome' = [outcome EXCEPT ![i] = [kind |-> "throw"]]
    /\ rresponse' = ErrorResponse(500, "Failed to generate recommendations")
    /\ rpc' = "done"
    /\ UNCHANGED <<genres, ownedSet, gaps, genresToSearch, searchCalls, results,
                   outOfOrder>>
    /\ UNCHANGED <<envVars, fetchVars, cmpVars, relVars, ctyVars>>

\* client.search of index i throws; the callback's catch returns null
SearchRejects(i) ==
    /\ rpc = "searching"
    /\ i \in pending
    /\ pending' = pending \ {i}
    /\ outcome' = [outcome EXCEPT ![i] = [kind |-> "throw"]]
    /\ results' = Store(results, i, Null)
    /\ outOfOrder' = (outOfOrder \/ \E j \in pending : j < i)
    /\ UNCHANGED <<rpc, genres, ownedSet, gaps, genresToSearch, searchCalls,
                   rresponse>>
    /\ UNCHANGED <<envVars, fetchVars, cmpVars, relVars, ctyVars>>

\* every search promise has settled: Promise.all resolves (lines 156-163)
JoinAll ==
    /\ rpc = "searching"
    /\ pending = {}
    /\ rresponse' = [status |-> 200, recommendations |-> Recommendations(results),
                     analyzedGenres |-> genresToSearch, gaps |-> gaps]
    /\ rpc' = "done"
    /\ UNCHANGED <<genres, ownedSet, gaps, genresToSearch, searchCalls, pending,
                   outcome, results, outOfOrder>>
    /\ UNCHANGED <<envVars, fetchVars, cmpVars, relVars, ctyVars>>


\* ---- request bodies and catalog answers the model draws from ----

\* longest tally of a request body
MaxTally == 2

\* most results one catalog search answers in the fan-out
MaxSearchResults == 1

\* the tallies over the given names and counts, each name at most once
Tallies(names, counts) ==
    {t \in SeqsUpTo([name : names, count : counts], MaxTally) :
        \A i, j \in DOMAIN t : i # j => t[i].name # t[j].name}

\* tallies of the analysis: the first six major genres decide the gaps of a
\* tally of this length; the last one and a non-major name complete the cases
AnalyzedTallies ==
    Tallies({MAJOR_GENRES[i] : i \in 1..6} \cup {"Stage & Screen", "Other"},
            {0, 1, 5, 9, 95})

\* tallies of the fan-out
SearchedTallies == Tallies({"Electronic", "Rock"}, {5, 95})

\* the title "Ab - Cd"
PlainTitle == <<"A", "b">> \o Separator \o <<"C", "d">>

\* a result without master_id (resolved by its id, 1) and one of master 2
SearchResultRecords ==
    {[id |-> 1, master_id |-> 0, title |-> PlainTitle],
     [id |-> 3, master_id |-> 2, title |-> PlainTitle]}

SearchAnswers == SeqsUpTo(SearchResultRecords, MaxSearchResults)

OwnedSets == SUBSET {1}

NextRec ==
    \/ /\ rpc = "idle"
       /\ \E gs \in SearchedTallies, owned \in OwnedSets : RecRequest(gs, owned)
    \/ \E i \in pending, rs \in SearchAnswers : SearchResolves(i, rs)
    \/ \E i \in pending : SearchRejects(i)
    \/ JoinAll

\* ---- search answers for the candidates of a bucket ----

\* the titles of the model: without separator, with one, with two, with a
\* separator first, with a separator last, empty, with a bare hyphen, and
\* with two separators sharing a blank
Titles ==
    {<<"A", "b">>,
     PlainTitle,
     PlainTitle \o Separator \o <<"E">>,
     Separator \o <<"C", "d">>,
     <<"A", "b">> \o Separator,
     <<>>,
     <<"A", "-", "b">>,
     <<"A", " ", "-", " ", "-", " ", "b">>}

\* an answer of one result, whose master is not owned
TitledAnswers == {<<[id |-> 7, master_id |-> 0, title |-> t]>> : t \in Titles}

\* most results an answer holds beyond the 8 kept
MaxOverflow == 2

\* an answer of n results, ids 1..n: without master_id ("none", resolved by
\* their ids), each of its own master 100 + id ("own"), or all of master 102
\* ("same")
LongAnswer(n, masters) ==
    [i \in 1..n |->
        [id |-> i,
         master_id |-> IF masters = "none" THEN 0
                       ELSE IF masters = "own" THEN 100 + i ELSE 102,
         title |-> PlainTitle]]

LongAnswers ==
    {LongAnswer(n, masters) :
        n \in (MaxCandidates - 1)..(MaxCandidates + MaxOverflow),
        masters \in {"none", "own", "same"}}

\* nothing owned, or the first result of a "none" answer, the second of an
\* "own" answer and every result of a "same" answer
BucketOwnedSets == {{}, {1, 102}}

\* the fan-out for the empty tally (three gaps, three searches)
NextBuckets ==
    \/ /\ rpc = "idle"
       /\ \E owned \in BucketOwnedSets : RecRequest(<<>>, owned)
    \/ \E i \in pending, rs \in TitledAnswers \cup LongAnswers : SearchResolves(i, rs)
    \/ \E i \in pending : SearchRejects(i)
    \/ JoinAll

\* the analysis of POST alone: the handler up to the search calls
NextAnalyze ==
    /\ rpc = "idle"
    /\ \E gs \in AnalyzedTallies : RecRequest(gs, {})

-----------------------------------------------------------------------------
(* Friend comparison: handleSearch of FriendCompare                        *)

\* prop myUsername
myUsername == "me"

\* friendUsername.trim() on the names the model types
Trim(name) == IF name = "  " THEN "" ELSE name

\* .toLowerCase() on the names the model types
ToLowerCase(name) == IF name = "Me" THEN "me" ELSE name

\* r.basic_information.master_id of every release, 0 included
MasterIdSet(coll) == {coll[i].master_id : i \in DOMAIN coll}

\* the overlap ids without the `id &&` test: a release without master joins
OverlapMasterIdsUnfiltered(mine, theirs) ==
    {m \in MasterIdSet(mine) : m \in MasterIdSet(theirs)}

\* new Set([...myMasterIds].filter((id) => id && friendMasterIds.has(id)))
OverlapMasterIds(mine, theirs) ==
    {m \in MasterIdSet(mine) : m # 0 /\ m \in MasterIdSet(theirs)}

\* myCollection.filter((r) => overlapMasterIds.has(r.basic_information.master_id))
Overlap(mine, theirs) ==
    SelectSeq(mine, LAMBDA r : r.master_id \in OverlapMasterIds(mine, theirs))

\* the one-sided filter without the `!overlapMasterIds.has` test
OnlyInKeepsShared(coll, mine, theirs) ==
    SelectSeq(coll, LAMBDA r : r.master_id # 0)

\* coll.filter((r) => master_id && !overlapMasterIds.has(master_id)), for onlyMe
\* (coll = myCollection) and onlyFriend (coll = friendCollection)
OnlyIn(coll, mine, theirs) ==
    SelectSeq(coll, LAMBDA r : /\ r.master_id # 0
                               /\ r.master_id \notin OverlapMasterIds(mine, theirs))

\* the size of my master ids alone, instead of the union's
TotalUniqueOfMine(mine, theirs) == Cardinality(MasterIdSet(mine))

\* new Set([...myMasterIds, ...friendMasterIds]).size
TotalUnique(mine, theirs) == Cardinality(MasterIdSet(mine) \cup MasterIdSet(theirs))

\* variant on a scale of 1000
RoundPerMille(a, b) == (2000 * a + b) \div (2 * b)

\* Math.round((a / b) * 100) for 0 <= a <= b, b > 0: the nearest integer, halves
\* up (for the small a, b of the model the double quotient rounds as the ratio)
RoundPercent(a, b) == (200 * a + b) \div (2 * b)

\* totalUnique > 0 ? Math.round((overlapMasterIds.size / totalUnique) * 100) : 0
CompatibilityScore(mine, theirs) ==
    IF TotalUnique(mine, theirs) > 0
      THEN RoundPercent(Cardinality(OverlapMasterIds(mine, theirs)),
                        TotalUnique(mine, theirs))
      ELSE 0

\* lines 207-239
Compare(mine, theirs) ==
    [overlap |-> Overlap(mine, theirs),
     onlyMe |-> OnlyIn(mine, mine, theirs),
     onlyFriend |-> OnlyIn(theirs, mine, theirs),
     compatibilityScore |-> CompatibilityScore(mine, theirs)]

\* the want ids without filter(Boolean)
WantMasterIdsUnfiltered(wants) == {wants[i].master_id : i \in DOMAIN wants}

\* new Set(wants.map((w) => w.basic_information.master_id).filter(Boolean))
WantMasterIds(wants) == {wants[i].master_id : i \in DOMAIN wants} \ {0}

Undefined == [kind |-> "undefined"]

\* variant that takes the last matching entry
FindWantLast(wants, m) ==
    IF \E i \in DOMAIN wants : wants[i].master_id = m
      THEN wants[CHOOSE i \in DOMAIN wants :
                     /\ wants[i].master_id = m
                     /\ \A j \in (i + 1)..Len(wants) : wants[j].master_id # m]
      ELSE Undefined

\* wants.find((w) => w.basic_information.master_id === master_id): the first
\* such entry, undefined when there is none
FindWant(wants, m) ==
    IF \E i \in DOMAIN wants : wants[i].master_id = m
      THEN wants[CHOOSE i \in DOMAIN wants :
                     /\ wants[i].master_id = m
                     /\ \A j \in 1..(i - 1) : wants[j].master_id # m]
      ELSE Undefined

\* coll.filter((r) => wantMasterIds.has(master_id))
\*     .map((release) => ({ release, matchedWant: wants.find(...) }))
Offers(coll, wants) ==
    LET kept == SelectSeq(coll, LAMBDA r : r.master_id \in WantMasterIds(wants))
    IN  [i \in DOMAIN kept |->
            [release |-> kept[i], matchedWant |-> FindWant(wants, kept[i].master_id)]]

NoResult == [kind |-> "null"]

NoComparison == [kind |-> "none"]

\* the object handed to setResult (genreOverlap, a display tally, left out)
ResultOf(name, fc, cmp, yco, tco) ==
    [friendUsername |-> name, friendCollection |-> fc,
     overlap |-> cmp.overlap, onlyMe |-> cmp.onlyMe, onlyFriend |-> cmp.onlyFriend,
     compatibilityScore |-> cmp.compatibilityScore,
     youCanOffer |-> yco, theyCanOffer |-> tco]

\* a collection or wantlist whose entries carry the given master ids; the id of
\* an entry is its position
Entries(ms) == [i \in DOMAIN ms |-> [id |-> i, master_id |-> ms[i]]]

\* the state of the component before any comparison
InitRun ==
    /\ cpc = "idle"
    /\ friendUsername = ""
    /\ searching = FALSE
    /\ error = "null"
    /\ result = NoResult
    /\ friendCollection = <<>>
    /\ comparison = NoComparison
    /\ youCanOffer = <<>>
    /\ theyCanOffer = <<>>
    /\ fetchLog = <<>>
    /\ wantsOutcome = [friend |-> "none", me |-> "none"]

\* the component with no collection loaded
InitCmp ==
    /\ InitRun
    /\ myCollection = <<>>
    /\ service = [collection |-> <<>>, myWants |-> <<>>, friendWants |-> <<>>]

\* the user types `name` and clicks: handleSearch up to the await of the
\* collection fetch (lines 180-194)
HandleSearch(name) ==
    /\ cpc = "idle"
    /\ friendUsername' = name
    /\ IF Trim(name) = ""
         THEN UNCHANGED <<cpc, searching, error, fetchLog>>
         ELSE IF ToLowerCase(name) = ToLowerCase(myUsername)
         THEN /\ error' = "You can't compare with yourself!"
              /\ UNCHANGED <<cpc, searching, fetchLog>>
         ELSE /\ searching' = TRUE
              /\ error' = "null"
              /\ fetchLog' = Append(fetchLog, <<"collection", name>>)
              /\ cpc' = "collection"
    /\ UNCHANGED <<myCollection, service, result, friendCollection, comparison,
                   youCanOffer, theyCanOffer, wantsOutcome>>
    /\ UNCHANGED <<envVars, fetchVars, recVars, relVars, ctyVars>>

\* the catch and finally of lines 309-315
Fail(msg) ==
    /\ error' = msg
    /\ searching' = FALSE
    /\ cpc' = "done"

\* lines 298-308 and the finally
SetResult(fc, cmp, yco, tco) ==
    /\ result' = ResultOf(friendUsername, fc, cmp, yco, tco)
    /\ searching' = FALSE
    /\ cpc' = "done"

\* the collection fetch answers OK with the friend's collection: lines 200-251
CollectionOk ==
    /\ cpc = "collection"
    /\ friendCollection' = service.collection
    /\ IF Len(service.collection) = 0
         THEN /\ Fail("Friend's collection is empty or private")
              /\ UNCHANGED <<comparison, fetchLog, result>>
         ELSE /\ comparison' = Compare(myCollection, service.collection)
              /\ fetchLog' = Append(fetchLog, <<"wantlist", friendUsername>>)
              /\ cpc' = "friendWants"
              /\ UNCHANGED <<searching, error, result>>
    /\ UNCHANGED <<myCollection, service, friendUsername, youCanOffer, theyCanOffer,
                   wantsOutcome>>
    /\ UNCHANGED <<envVars, fetchVars, recVars, relVars, ctyVars>>

\* variant without the finally: a failed collection fetch leaves searching set
CollectionFailsKeepsSearching(how) ==
    /\ cpc = "collection"
    /\ error' = (IF how = "notok" THEN "Failed to fetch friend's collection"
                                  ELSE "Failed to fetch")
    /\ cpc' = "done"
    /\ UNCHANGED <<myCollection, service, friendUsername, searching, result,
                   friendCollection, comparison, youCanOffer, theyCanOffer,
                   fetchLog, wantsOutcome>>
    /\ UNCHANGED <<envVars, fetchVars, recVars, relVars, ctyVars>>

\* the collection fetch answers with a non-OK status (lines 196-198) or rejects
CollectionFails(how) ==
    /\ cpc = "collection"
    /\ Fail(IF how = "notok" THEN "Failed to fetch friend's collection"
                             ELSE "Failed to fetch")
    /\ UNCHANGED <<myCollection, service, friendUsername, result, friendCollection,
                   comparison, youCanOffer, theyCanOffer, fetchLog, wantsOutcome>>
    /\ UNCHANGED <<envVars, fetchVars, recVars, relVars, ctyVars>>

\* variant without the inner try: a rejected fetch reaches the outer catch
FriendWantsResponseNoCatch(how) ==
    /\ cpc = "friendWants"
    /\ wantsOutcome' = [wantsOutcome EXCEPT !.friend = how]
    /\ youCanOffer' = IF how = "ok" THEN Offers(myCollection, service.friendWants)
                                    ELSE youCanOffer
    /\ IF how = "throw"
         THEN /\ Fail("Failed to fetch")
              /\ UNCHANGED <<fetchLog, result>>
         ELSE /\ fetchLog' = Append(fetchLog, <<"wantlist", myUsername>>)
              /\ cpc' = "myWants"
              /\ UNCHANGED <<searching, result, error>>
    /\ UNCHANGED <<myCollection, service, friendUsername, friendCollection,
                   comparison, theyCanOffer>>
    /\ UNCHANGED <<envVars, fetchVars, recVars, relVars, ctyVars>>

\* the friend's wantlist fetch ends: OK (lines 253-269), not OK, or rejected
\* (the catch of line 293, then setResult)
FriendWantsResponse(how) ==
    /\ cpc = "friendWants"
    /\ wantsOutcome' = [wantsOutcome EXCEPT !.friend = how]
    /\ youCanOffer' = IF how = "ok" THEN Offers(myCollection, service.friendWants)
                                    ELSE youCanOffer
    /\ IF how = "throw"
         THEN /\ SetResult(friendCollection, comparison, youCanOffer', theyCanOffer)
              /\ UNCHANGED fetchLog
         ELSE /\ fetchLog' = Append(fetchLog, <<"wantlist", myUsername>>)
              /\ cpc' = "myWants"
              /\ UNCHANGED <<searching, result>>
    /\ UNCHANGED <<myCollection, service, friendUsername, error, friendCollection,
                   comparison, theyCanOffer>>
    /\ UNCHANGED <<envVars, fetchVars, recVars, relVars, ctyVars>>

\* my wantlist fetch ends: OK (lines 276-292), not OK, or rejected; then
\* setResult and the finally
MyWantsResponse(how) ==
    /\ cpc = "myWants"
    /\ wantsOutcome' = [wantsOutcome EXCEPT !.me = how]
    /\ theyCanOffer' = IF how = "ok" THEN Offers(friendCollection, service.myWants)
                                     ELSE theyCanOffer
    /\ SetResult(friendCollection, comparison, youCanOffer, theyCanOffer')
    /\ UNCHANGED <<myCollection, service, friendUsername, error, friendCollection,
                   comparison, youCanOffer, fetchLog>>
    /\ UNCHANGED <<envVars, fetchVars, recVars, relVars, ctyVars>>

\* the comparisons started so far: the collection fetches issued
Runs == Len(SelectSeq(fetchLog, LAMBDA f : f[1] = "collection"))

\* most comparisons started in one behaviour
MaxRuns == 2

\* variant that resets the stored result when a comparison starts
SearchAgainClearsResult(name) ==
    /\ cpc = "done"
    /\ Runs < MaxRuns
    /\ friendUsername' = name
    /\ IF Trim(name) = ""
         THEN UNCHANGED <<cpc, searching, error, fetchLog, friendCollection,
                          comparison, youCanOffer, theyCanOffer, wantsOutcome,
                          result>>
         ELSE IF ToLowerCase(name) = ToLowerCase(myUsername)
         THEN /\ error' = "You can't compare with yourself!"
              /\ UNCHANGED <<cpc, searching, fetchLog, friendCollection, comparison,
                             youCanOffer, theyCanOffer, wantsOutcome, result>>
         ELSE /\ searching' = TRUE
              /\ error' = "null"
              /\ result' = NoResult
              /\ fetchLog' = Append(fetchLog, <<"collection", name>>)
              /\ friendCollection' = <<>>
              /\ comparison' = NoComparison
              /\ youCanOffer' = <<>>
              /\ theyCanOffer' = <<>>
              /\ wantsOutcome' = [friend |-> "none", me |-> "none"]
              /\ cpc' = "collection"
    /\ UNCHANGED <<myCollection, service>>
    /\ UNCHANGED <<envVars, fetchVars, recVars, relVars, ctyVars>>

\* the user types `name` and clicks again after a comparison has ended (the
\* controls are disabled while searching, lines 367 and 372): a new
\* invocation of handleSearch, with its own locals, up to the await of the
\* collection fetch (lines 180-194)
SearchAgain(name) ==
    /\ cpc = "done"
    /\ Runs < MaxRuns
    /\ friendUsername' = name
    /\ IF Trim(name) = ""
         THEN UNCHANGED <<cpc, searching, error, fetchLog, friendCollection,
                          comparison, youCanOffer, theyCanOffer, wantsOutcome>>
         ELSE IF ToLowerCase(name) = ToLowerCase(myUsername)
         THEN /\ error' = "You can't compare with yourself!"
              /\ UNCHANGED <<cpc, searching, fetchLog, friendCollection, comparison,
                             youCanOffer, theyCanOffer, wantsOutcome>>
         ELSE /\ searching' = TRUE
              /\ error' = "null"
              /\ fetchLog' = Append(fetchLog, <<"collection", name>>)
              /\ friendCollection' = <<>>
              /\ comparison' = NoComparison
              /\ youCanOffer' = <<>>
              /\ theyCanOffer' = <<>>
              /\ wantsOutcome' = [friend |-> "none", me |-> "none"]
              /\ cpc' = "collection"
    /\ UNCHANGED <<myCollection, service, result>>
    /\ UNCHANGED <<envVars, fetchVars, recVars, relVars, ctyVars>>

\* between two comparisons the catalog comes to hold another collection for
\* the friend
CatalogChanges(c) ==
    /\ cpc = "done"
    /\ Runs < MaxRuns
    /\ c # service.collection
    /\ service' = [service EXCEPT !.collection = c]
    /\ UNCHANGED <<cpc, myCollection, friendUsername, searching, error, result,
                   friendCollection, comparison, youCanOffer, theyCanOffer, fetchLog,
                   wantsOutcome>>
    /\ UNCHANGED <<envVars, fetchVars, recVars, relVars, ctyVars>>

\* ---- collections and wantlists the model draws from ----

\* longest collection
MaxCollection == 2

\* longest wantlist
MaxWants == 2

\* the collections over the given master ids, 0 for a release without master
Collections(masters) == {Entries(ms) : ms \in SeqsUpTo(masters, MaxCollection)}

\* the wantlists over the given master ids
Wantlists(masters) == {Entries(ms) : ms \in SeqsUpTo(masters, MaxWants)}

\* what is typed into the input field
TypedNames == {"", "  ", "Me", "me", "friend"}

NextCmp ==
    \/ \E name \in TypedNames : HandleSearch(name)
    \/ CollectionOk
    \/ \E how \in {"notok", "throw"} : CollectionFails(how)
    \/ \E how \in {"ok", "notok", "throw"} : FriendWantsResponse(how)
    \/ \E how \in {"ok", "notok", "throw"} : MyWantsResponse(how)

\* every fetch that handleSearch awaits returns or throws
FetchSettles ==
    \/ CollectionOk
    \/ \E how \in {"notok", "throw"} : CollectionFails(how)
    \/ \E how \in {"ok", "notok", "throw"} : FriendWantsResponse(how)
    \/ \E how \in {"ok", "notok", "throw"} : MyWantsResponse(how)

\* comparisons one after the other
NextRerun ==
    \/ \E name \in TypedNames : HandleSearch(name)
    \/ \E name \in TypedNames : SearchAgain(name)
    \/ \E c \in Collections({0, 1}) : CatalogChanges(c)
    \/ CollectionOk
    \/ \E how \in {"notok", "throw"} : CollectionFails(how)
    \/ \E how \in {"ok", "notok", "throw"} : FriendWantsResponse(how)
    \/ \E how \in {"ok", "notok", "throw"} : MyWantsResponse(how)

-----------------------------------------------------------------------------
(* Release route: GET /api/release/[id]                                    *)

Digits == <<"0", "1", "2", "3", "4", "5", "6", "7", "8", "9">>

IsDigit(c) == \E d \in DOMAIN Digits : Digits[d] = c

DigitValue(c) == (CHOOSE d \in DOMAIN Digits : Digits[d] = c) - 1

\* the longest prefix of digits of a string, given as its characters
RECURSIVE LeadingDigits(_)
LeadingDigits(cs) ==
    IF cs = <<>> \/ ~IsDigit(Head(cs)) THEN <<>>
    ELSE <<Head(cs)>> \o LeadingDigits(Tail(cs))

\* the number written by a string of digits, in base 10
RECURSIVE Decimal(_)
Decimal(ds) ==
    IF ds = <<>> THEN 0
    ELSE 10 * Decimal(SubSeq(ds, 1, Len(ds) - 1)) + DigitValue(ds[Len(ds)])

\* parseInt(id, 10) of an unsigned string without leading blanks: the number
\* written by its leading digits, NaN when there are none
ParseInt(cs) ==
    IF LeadingDigits(cs) = <<>> THEN [nan |-> TRUE, value |-> 0]
    ELSE [nan |-> FALSE, value |-> Decimal(LeadingDigits(cs))]

IsNaN(x) == x.nan

\* v || null
OrNull(v, falsy) == IF v = falsy THEN Null ELSE [kind |-> "value", value |-> v]

\* NextResponse.json({ id, country: country || null, year: year || null })
ReleaseResponse(rel) ==
    [status |-> 200, id |-> rel.id, country |-> OrNull(rel.country, ""),
     year |-> OrNull(rel.year, 0)]

InitRel ==
    /\ relpc = "idle"
    /\ releaseId = [nan |-> TRUE, value |-> 0]
    /\ relCalls = <<>>
    /\ relResponse = NoResponse

\* variant that looks at the session before the consumer credentials
ReleaseRequestSessionFirst(id) ==
    /\ relpc = "idle"
    /\ releaseId' = ParseInt(id)
    /\ IF IsNaN(ParseInt(id))
         THEN /\ relResponse' = ErrorResponse(400, "Invalid release ID")
              /\ relpc' = "done"
              /\ UNCHANGED relCalls
         ELSE IF ~sessionTokens
         THEN /\ relResponse' = ErrorResponse(401, "Not authenticated")
              /\ relpc' = "done"
              /\ UNCHANGED relCalls
         ELSE IF ~consumerCreds
         THEN /\ relResponse' =
                     ErrorResponse(500, "Discogs credentials not configured")
              /\ relpc' = "done"
              /\ UNCHANGED relCalls
         ELSE /\ relCalls' = Append(relCalls, [op |-> "getRelease",
                                               id |-> ParseInt(id).value])
              /\ relpc' = "await"
              /\ UNCHANGED relResponse
    /\ UNCHANGED <<envVars, fetchVars, recVars, cmpVars, ctyVars>>

\* GET, from entry to the await of getRelease (lines 9-48)
ReleaseRequest(id) ==
    /\ relpc = "idle"
    /\ releaseId' = ParseInt(id)
    /\ IF IsNaN(ParseInt(id))
         THEN /\ relResponse' = ErrorResponse(400, "Invalid release ID")
              /\ relpc' = "done"
              /\ UNCHANGED relCalls
         ELSE IF ~consumerCreds
         THEN /\ relResponse' =
                     ErrorResponse(500, "Discogs credentials not configured")
              /\ relpc' = "done"
              /\ UNCHANGED relCalls
         ELSE IF ~sessionTokens
         THEN /\ relResponse' = ErrorResponse(401, "Not authenticated")
              /\ relpc' = "done"
              /\ UNCHANGED relCalls
         ELSE /\ relCalls' = Append(relCalls, [op |-> "getRelease",
                                               id |-> ParseInt(id).value])
              /\ relpc' = "await"
              /\ UNCHANGED relResponse
    /\ UNCHANGED <<envVars, fetchVars, recVars, cmpVars, ctyVars>>

\* getRelease answers with the release of the requested id (lines 48-62)
ReleaseOk(country, year) ==
    /\ relpc = "await"
    /\ relResponse' = ReleaseResponse([id |-> releaseId.value, country |-> country,
                                       year |-> year])
    /\ relpc' = "done"
    /\ UNCHANGED <<releaseId, relCalls>>
    /\ UNCHANGED <<envVars, fetchVars, recVars, cmpVars, ctyVars>>

\* getRelease is rejected: the catch of lines 63-69
ReleaseFails ==
    /\ relpc = "await"
    /\ relResponse' = ErrorResponse(500, "Failed to fetch release")
    /\ relpc' = "done"
    /\ UNCHANGED <<releaseId, relCalls>>
    /\ UNCHANGED <<envVars, fetchVars, recVars, cmpVars, ctyVars>>

\* longest id segment of a request
MaxIdLen == 2

\* the id segments of the model, as their characters
IdParams == SeqsUpTo({"0", "7", "x"}, MaxIdLen)

\* what the catalog holds of a release: country "" and year 0 when absent
Countries == {"", "US"}

Years == {0, 1999}

NextRel ==
    \/ \E id \in IdParams : ReleaseRequest(id)
    \/ \E country \in Countries, year \in Years : ReleaseOk(country, year)
    \/ ReleaseFails

-----------------------------------------------------------------------------
(* Country fetch: fetchCountryData of CountryDistribution                  *)

\* releasesToFetch.slice(0, 50)
BatchLimit == 50

\* country.trim() on the countries the model answers
TrimCountry(country) == IF country = " UK " THEN "UK" ELSE country

\* normalizeCountry
NormalizeCountry(country) ==
    IF TrimCountry(country) \in {"US", "USA"} THEN "United States"
    ELSE IF TrimCountry(country) = "UK" THEN "United Kingdom"
    ELSE TrimCountry(country)

\* countryData with no entry
NoCountries == [id \in {} |-> ""]

\* newCountryData[id] = country
Record(data, id, country) ==
    [i \in DOMAIN data \cup {id} |-> IF i = id THEN country ELSE data[i]]

\* releases.filter((r) => !countryData[r.basic_information.id])
ReleasesToFetch(ids, data) ==
    SelectSeq(ids, LAMBDA id : id \notin DOMAIN data \/ data[id] = "")

\* Object.keys(countryData).length
TotalFetched == Cardinality(DOMAIN countryData)

\* an answer of the release route: OK with the country ("" when the release
\* has none), not OK, or a rejected fetch
OkAnswer(country) == [how |-> "ok", country |-> country]

FailedAnswers == {[how |-> "notok", country |-> ""], [how |-> "throw", country |-> ""]}

\* the state of the component before any click
InitRunCty ==
    /\ ypc = "idle"
    /\ countryData = NoCountries
    /\ newCountryData = NoCountries
    /\ releasesToFetch = <<>>
    /\ batch = <<>>
    /\ completed = 0
    /\ fetching = FALSE
    /\ fetchProgress = [num |-> 0, den |-> 1]
    /\ fetchError = "null"
    /\ issued = <<>>
    /\ outstanding = {}
    /\ requested = {}
    /\ anyFailed = FALSE

\* the component with no releases
InitCty ==
    /\ InitRunCty
    /\ releaseIds = <<>>
    /\ catalog = [middle |-> OkAnswer(""), beyond |-> OkAnswer("")]

\* the code after the loop (lines 128-135)
EndOfBatch(data, pendingReleases) ==
    /\ countryData' = data
    /\ fetching' = FALSE
    /\ fetchError' =
           IF Len(pendingReleases) > BatchLimit
             THEN "Fetched 50 of more releases. Click again to fetch more."
             ELSE "null"
    /\ ypc' = "idle"

\* the fetch of release `id` is issued (lines 107-109)
Request(id) ==
    /\ issued' = Append(issued, id)
    /\ outstanding' = outstanding \cup {id}
    /\ requested' = requested \cup {id}
    /\ ypc' = "await"

\* a click on the button, enabled unless fetching or every release has a
\* country (line 202): fetchCountryData up to the first await (lines 91-109),
\* or to its end when the batch is empty
FetchCountryData ==
    /\ ypc = "idle"
    /\ ~fetching
    /\ TotalFetched < Len(releaseIds)
    /\ fetchProgress' = [num |-> 0, den |-> 1]
    /\ newCountryData' = countryData
    /\ releasesToFetch' = ReleasesToFetch(releaseIds, countryData)
    /\ batch' = Slice(ReleasesToFetch(releaseIds, countryData), BatchLimit)
    /\ completed' = 0
    /\ IF batch' = <<>>
         THEN /\ EndOfBatch(countryData, releasesToFetch')
              /\ issued' = <<>>
              /\ UNCHANGED <<outstanding, requested>>
         ELSE /\ fetching' = TRUE
              /\ fetchError' = "null"
              /\ issued' = <<batch'[1]>>
              /\ outstanding' = outstanding \cup {batch'[1]}
              /\ requested' = requested \cup {batch'[1]}
              /\ ypc' = "await"
              /\ UNCHANGED countryData
    /\ UNCHANGED <<releaseIds, catalog, anyFailed>>
    /\ UNCHANGED <<envVars, fetchVars, recVars, cmpVars, relVars>>

\* the outstanding fetch ends with answer a: lines 110-123; a rejected fetch
\* is caught by the try of the loop body
Answer(a) ==
    /\ ypc = "await"
    /\ newCountryData' =
           IF a.how = "ok" /\ a.country # ""
             THEN Record(newCountryData, batch[completed + 1],
                         NormalizeCountry(a.country))
             ELSE newCountryData
    /\ anyFailed' = (anyFailed \/ a.how # "ok")
    /\ outstanding' = outstanding \ {batch[completed + 1]}
    /\ completed' = completed + 1
    /\ fetchProgress' = [num |-> (completed + 1) * 100, den |-> Len(batch)]
    /\ ypc' = "delay"
    /\ UNCHANGED <<releaseIds, catalog, countryData, releasesToFetch, batch,
                   fetching, fetchError, issued, requested>>
    /\ UNCHANGED <<envVars, fetchVars, recVars, cmpVars, relVars>>

\* the 100 ms timer fires (line 125): the next release of the batch, or the
\* code after the loop
TimerFires ==
    /\ ypc = "delay"
    /\ IF completed < Len(batch)
         THEN /\ Request(batch[completed + 1])
              /\ UNCHANGED <<countryData, fetching, fetchError>>
         ELSE /\ EndOfBatch(newCountryData, releasesToFetch)
              /\ UNCHANGED <<issued, outstanding, requested>>
    /\ UNCHANGED <<releaseIds, catalog, newCountryData, releasesToFetch, batch,
                   completed, fetchProgress, anyFailed>>
    /\ UNCHANGED <<envVars, fetchVars, recVars, cmpVars, relVars>>

\* ---- collections and catalog answers the model draws from ----

\* most releases of a collection beyond one batch
MaxBeyond == 1

\* the sizes of the collections of the model
CollectionSizes == {0, 1} \cup (BatchLimit..(BatchLimit + MaxBeyond))

\* what the catalog answers for a release by its place: anything for release
\* 1, the answer `middle` for the releases 2..50, `beyond` for the later ones
AnswersFor(id) ==
    IF id = 1
      THEN {OkAnswer(""), OkAnswer("US"), OkAnswer(" UK ")} \cup FailedAnswers
      ELSE IF id <= BatchLimit THEN {catalog.middle} ELSE {catalog.beyond}

CatalogAnswers == {OkAnswer(""), OkAnswer("US")} \cup FailedAnswers

NextCty ==
    \/ FetchCountryData
    \/ /\ ypc = "await"
       /\ \E a \in AnswersFor(batch[completed + 1]) : Answer(a)
    \/ TimerFires

-----------------------------------------------------------------------------
(* Specifications: one per route, over the same environment                *)

InitEnv ==
    /\ consumerCreds \in BOOLEAN
    /\ sessionTokens \in BOOLEAN

\* the server routes, for every configuration of credentials and session
InitRoutes == InitEnv /\ InitFetch /\ InitRec /\ InitCmp /\ InitRel /\ InitCty

SpecFetch == InitRoutes /\ [][NextFetch]_vars

\* POST /api/recommendations
SpecRec == InitRoutes /\ [][NextRec]_vars

\* the genre analysis of POST /api/recommendations
SpecAnalyze == InitRoutes /\ [][NextAnalyze]_vars

\* fetchCountryData clicked whenever the button is enabled, every fetch
\* settling and every timer firing
InitOfCountry ==
    /\ consumerCreds = TRUE /\ sessionTokens = TRUE
    /\ InitFetch /\ InitRec /\ InitCmp /\ InitRel /\ InitRunCty
    /\ releaseIds \in {[i \in 1..n |-> i] : n \in CollectionSizes}
    /\ catalog \in [middle : CatalogAnswers, beyond : CatalogAnswers]

SpecCountry == InitOfCountry /\ [][NextCty]_vars /\ WF_vars(NextCty)

\* the candidates of the buckets of POST /api/recommendations, with a session
InitOfBuckets ==
    /\ consumerCreds = TRUE /\ sessionTokens = TRUE
    /\ InitFetch /\ InitRec /\ InitCmp /\ InitRel /\ InitCty

SpecBuckets == InitOfBuckets /\ [][NextBuckets]_vars

\* one request to any of the three server routes
NextRoutes ==
    \/ rpc = "idle" /\ relpc = "idle" /\ NextFetch
    \/ fpc = "idle" /\ relpc = "idle" /\ NextRec
    \/ fpc = "idle" /\ rpc = "idle" /\ NextRel

SpecRoutes == InitRoutes /\ [][NextRoutes]_vars

\* handleSearch, for every pair of collections over three master ids and 0;
\* both wantlists are empty
InitOfCompare ==
    /\ consumerCreds = TRUE /\ sessionTokens = TRUE
    /\ InitFetch /\ InitRec /\ InitRun /\ InitRel /\ InitCty
    /\ myCollection \in Collections({0, 1, 2, 3})
    /\ service \in [collection : Collections({0, 1, 2, 3}), myWants : {<<>>},
                    friendWants : {<<>>}]

SpecCompare == InitOfCompare /\ [][NextCmp]_vars

\* handleSearch, for every pair of collections and every pair of wantlists
\* over two master ids
InitOfTrade ==
    /\ consumerCreds = TRUE /\ sessionTokens = TRUE
    /\ InitFetch /\ InitRec /\ InitRun /\ InitRel /\ InitCty
    /\ myCollection \in Collections({0, 1})
    /\ service \in [collection : Collections({0, 1}), myWants : Wantlists({0, 1}),
                    friendWants : Wantlists({0, 1})]

SpecTrade == InitOfTrade /\ [][NextCmp]_vars

\* handleSearch invoked again and again, every awaited fetch settling; both
\* wantlists are empty
InitOfRerun ==
    /\ consumerCreds = TRUE /\ sessionTokens = TRUE
    /\ InitFetch /\ InitRec /\ InitRun /\ InitRel /\ InitCty
    /\ myCollection \in Collections({0, 1})
    /\ service \in [collection : Collections({0, 1}), myWants : {<<>>},
                    friendWants : {<<>>}]

SpecRerun == InitOfRerun /\ [][NextRerun]_vars /\ WF_vars(FetchSettles)

-----------------------------------------------------------------------------
(* Properties of the collection route (SpecFetch)                          *)

\* the pages the route has to read for a reported total
\* max(1, min(ceil(total / 100), 5))
PagesWanted(t) == Max(1, Min(CeilDiv(t, 100), 5))

\* C1: when the request of a page k >= 2 fails, GET answers with a success
\* holding the releases of pages 1..k-1, never with an error
C1_FailsSoftAfterPageOne ==
    (fpc = "done" /\ failedPage >= 2) =>
        /\ response.status = 200
        /\ response.releases = releases
        /\ response.fetched = Len(releases)
        /\ \A i \in DOMAIN releases : releases[i][1] < failedPage

\* C2: the page requests are for pages 1, 2, ... in increasing order, each page
\* once, at most max(1, min(ceil(total / 100), 5)) <= 5 of them; at most one is
\* outstanding at a time, and it is the page issued last; a request that runs to
\* its answer without a failing page has issued exactly all of them
C2_PagesSerialAndCapped ==
    /\ Cardinality(inflight) <= 1
    /\ \A p \in inflight : p = Len(calls)
    /\ \A i \in DOMAIN calls : calls[i].page = i
    /\ Len(calls) <= 5
    /\ total >= 0 => Len(calls) <= PagesWanted(total)
    /\ (fpc = "done" /\ failedPage = 0 /\ total >= 0) =>
           Len(calls) = PagesWanted(total)
    /\ (fpc = "done" /\ failedPage > 0) => Len(calls) = failedPage

\* C2 witness: a collection of more than 500 releases was read to the cap
C2_Witness ==
    /\ fpc = "done"
    /\ response.status = 200
    /\ total > 500
    /\ Len(calls) = 5

-----------------------------------------------------------------------------
(* Properties of the recommendation route (SpecRec, SpecAnalyze)           *)

\* the genres of the buckets of a response, in order
BucketGenres(recs) == [k \in DOMAIN recs |-> recs[k].genre]

\* the index of genre g in the selection
IndexOfGenre(g) == CHOOSE i \in DOMAIN genresToSearch : genresToSearch[i] = g

\* C3: whatever the order in which the searches completed, the buckets of the
\* response are in the order of genresToSearch (a subsequence of it), each
\* holding the candidates of its own genre's search
C3_BucketsInSelectionOrder ==
    (rpc = "done" /\ rresponse.status = 200) =>
        LET recs == rresponse.recommendations
        IN  /\ BucketGenres(recs) =
                   SelectSeq(genresToSearch,
                             LAMBDA g : \E k \in DOMAIN recs : recs[k].genre = g)
            /\ \A k \in DOMAIN recs :
                   /\ outcome[IndexOfGenre(recs[k].genre)].kind = "ok"
                   /\ recs[k].releases =
                          Filtered(outcome[IndexOfGenre(recs[k].genre)].results,
                                   ownedSet)

\* C3 witness: searches completed out of order and two buckets were returned
C3_Witness ==
    /\ rpc = "done"
    /\ rresponse.status = 200
    /\ outOfOrder
    /\ Len(rresponse.recommendations) >= 2

\* the indices whose search answered and left a candidate
WithCandidates ==
    {i \in DOMAIN genresToSearch :
        /\ outcome[i].kind = "ok"
        /\ \E j \in DOMAIN outcome[i].results :
               LET r == outcome[i].results[j]
               IN  /\ (r.master_id # 0 \/ r.id # 0)
                   /\ (IF r.master_id # 0 THEN r.master_id ELSE r.id) \notin ownedSet}

\* C4: whichever searches throw, an authenticated request ends with a success
\* whose buckets are exactly those of the genres whose search answered with at
\* least one candidate, one bucket each
C4_FailureLosesOnlyItsBucket ==
    (rpc = "done" /\ consumerCreds /\ sessionTokens) =>
        /\ rresponse.status = 200
        /\ Range(BucketGenres(rresponse.recommendations)) =
               {genresToSearch[i] : i \in WithCandidates}
        /\ Len(rresponse.recommendations) = Cardinality(WithCandidates)

\* C4 witness: one search threw and another genre still has its bucket
C4_Witness ==
    /\ rpc = "done"
    /\ rresponse.status = 200
    /\ \E i \in DOMAIN outcome : outcome[i].kind = "throw"
    /\ Len(rresponse.recommendations) >= 1

\* the analysis has run on the tally of the request
Analyzed == rpc = "searching"

\* C7: a tally whose counts sum to 0 has no gaps
C7_NoGapsWithoutReleases ==
    (Analyzed /\ TotalReleases(genres) = 0) => gaps = <<>>

\* the position of a genre in the reference list
MajorIndex(g) == CHOOSE p \in DOMAIN MAJOR_GENRES : MAJOR_GENRES[p] = g

\* genre g is absent from the tally or its share is strictly below 10%
Underrepresented(g) ==
    \/ \A i \in DOMAIN genres : genres[i].name # g
    \/ \E i \in DOMAIN genres :
           /\ genres[i].name = g
           /\ 100 * genres[i].count < 10 * TotalReleases(genres)

\* C8: for a tally with releases, gaps holds at most 3 genres, each a major
\* genre that is absent or below 10%, in reference-list order, and a qualifying
\* major genre is left out only when 3 qualifying ones precede it
C8_GapsAreFirstThreeUnderrepresented ==
    (Analyzed /\ TotalReleases(genres) > 0) =>
        /\ Len(gaps) <= 3
        /\ \A k \in DOMAIN gaps :
               gaps[k] \in Range(MAJOR_GENRES) /\ Underrepresented(gaps[k])
        /\ \A k, l \in DOMAIN gaps :
               k < l => MajorIndex(gaps[k]) < MajorIndex(gaps[l])
        /\ \A p \in DOMAIN MAJOR_GENRES :
               (Underrepresented(MAJOR_GENRES[p]) /\ MAJOR_GENRES[p] \notin Range(gaps))
                   => (Len(gaps) = 3 /\ MajorIndex(gaps[3]) < p)

\* C8 witness: a major genre at exactly 10% is not a gap, an absent one is
C8_Witness ==
    /\ Analyzed
    /\ TotalReleases(genres) > 0
    /\ \E i \in DOMAIN genres :
           /\ genres[i].name = "Electronic"
           /\ 10 * genres[i].count = TotalReleases(genres)
    /\ "Electronic" \notin Range(gaps)
    /\ "Jazz" \in Range(gaps)

\* the tally of the end-to-end example
ExampleTally == <<[name |-> "Jazz", count |-> 5], [name |-> "Rock", count |-> 95]>>

\* C9 as stated: the tally [{Jazz,5},{Rock,95}] gives gaps
\* [Electronic, Hip Hop, Classical]
C9_ExampleAsStated ==
    (Analyzed /\ genres = ExampleTally) =>
        gaps = <<"Electronic", "Hip Hop", "Classical">>

\* C9 amended: the tally [{Jazz,5},{Rock,95}] gives gaps
\* [Electronic, Jazz, Hip Hop], Jazz at 5% being below the threshold
C9_ExampleGaps ==
    (Analyzed /\ genres = ExampleTally) =>
        gaps = <<"Electronic", "Jazz", "Hip Hop">>

\* C9 witness: the example tally has been analyzed
C9_Witness == Analyzed /\ genres = ExampleTally

-----------------------------------------------------------------------------
(* Properties of the friend comparison (SpecCompare, SpecTrade)            *)

\* the opportunities a wantlist yields for a collection: the items whose
\* master id is a non-zero master id of the wantlist
Tradeable(coll, wants) ==
    SelectSeq(coll, LAMBDA r : /\ r.master_id # 0
                               /\ \E i \in DOMAIN wants :
                                      wants[i].master_id = r.master_id)

\* the releases of a list of opportunities
OfferedReleases(offers) == [i \in DOMAIN offers |-> offers[i].release]

Failed(how) == how \in {"notok", "throw"}

\* C5: in a result, each direction is empty only when its own wantlist fetch
\* failed: theyCanOffer is what my wantlist yields unless my wantlist fetch
\* failed, youCanOffer is what the friend's wantlist yields unless the friend's
\* wantlist fetch failed
C5_WantlistFetchesIndependent ==
    (cpc = "done" /\ result # NoResult) =>
        /\ OfferedReleases(result.theyCanOffer) =
               IF Failed(wantsOutcome.me) THEN <<>>
               ELSE Tradeable(result.friendCollection, service.myWants)
        /\ OfferedReleases(result.youCanOffer) =
               IF Failed(wantsOutcome.friend) THEN <<>>
               ELSE Tradeable(myCollection, service.friendWants)

\* the non-zero master ids of a collection
JoinIds(coll) == {coll[i].master_id : i \in DOMAIN coll} \ {0}

\* C6: once the friend's non-empty collection has been fetched, the run ends
\* with a result, whatever the wantlist fetches did, and its overlap, onlyMe,
\* onlyFriend and compatibilityScore are those of the two collections
C6_ResultDespiteWantlistFailure ==
    (cpc = "done" /\ Len(friendCollection) > 0) =>
        /\ result # NoResult
        /\ error = "null"
        /\ result.friendCollection = service.collection
        /\ result.overlap =
               SelectSeq(myCollection,
                         LAMBDA r : r.master_id \in JoinIds(myCollection)
                                                    \cap JoinIds(service.collection))
        /\ result.onlyMe =
               SelectSeq(myCollection,
                         LAMBDA r : r.master_id \in JoinIds(myCollection)
                                                    \ JoinIds(service.collection))
        /\ result.onlyFriend =
               SelectSeq(service.collection,
                         LAMBDA r : r.master_id \in JoinIds(service.collection)
                                                    \ JoinIds(myCollection))
        /\ result.compatibilityScore = comparison.compatibilityScore
        /\ comparison = Compare(myCollection, service.collection)

\* C6 witness: the friend's wantlist fetch threw and the result is there, with
\* a master in common
C6_Witness ==
    /\ cpc = "done"
    /\ wantsOutcome.friend = "throw"
    /\ result # NoResult
    /\ Len(result.overlap) > 0

\* C10: the score is round(100 * |overlapIds| / |mineIds u theirIds|) over the
\* non-zero master ids of the two collections
C10_ScoreOverJoinIds ==
    (cpc = "done" /\ result # NoResult) =>
        LET mineIds == JoinIds(myCollection)
            theirIds == JoinIds(result.friendCollection)
            n == Cardinality(mineIds \cup theirIds)
        IN  n > 0 =>
                /\ 2 * n * result.compatibilityScore
                       <= 200 * Cardinality(mineIds \cap theirIds) + n
                /\ 2 * n * (result.compatibilityScore + 1)
                       > 200 * Cardinality(mineIds \cap theirIds) + n

\* C11: a collection with at least one master id, compared with an identical
\* collection, scores 100
C11_IdenticalCollectionsScore100 ==
    (/\ cpc = "done" /\ result # NoResult
     /\ result.friendCollection = myCollection
     /\ JoinIds(myCollection) # {}) =>
        result.compatibilityScore = 100

\* C12: the score of a result is the score of the comparison with the two
\* collections exchanged
C12_ScoreSymmetric ==
    (cpc = "done" /\ result # NoResult) =>
        result.compatibilityScore =
            CompatibilityScore(result.friendCollection, myCollection)

\* C12 witness: a result for two collections with different sets of master
\* ids, one master in common
C12_Witness ==
    /\ cpc = "done" /\ result # NoResult
    /\ MasterIdSet(myCollection) # MasterIdSet(result.friendCollection)
    /\ Len(myCollection) # Len(result.friendCollection)
    /\ result.compatibilityScore > 0

\* the number of times r occurs in the list
Occurrences(list, r) == Len(SelectSeq(list, LAMBDA x : x = r))

\* the master ids of a list of releases
MastersOf(list) == {list[i].master_id : i \in DOMAIN list}

\* C13: no release is both in overlap and in onlyMe, no master is both in
\* overlap and in onlyFriend; each of my releases with a master is once in
\* overlap when its master is in both collections and once in onlyMe
\* otherwise; each of the friend's releases with a master is once in
\* onlyFriend when its master is not in both collections, and is represented
\* in overlap by its master otherwise
C13_PartitionByMaster ==
    (cpc = "done" /\ result # NoResult) =>
        LET both == JoinIds(myCollection) \cap JoinIds(result.friendCollection)
        IN  /\ \A i \in DOMAIN result.overlap :
                   Occurrences(result.onlyMe, result.overlap[i]) = 0
            /\ MastersOf(result.overlap) \cap MastersOf(result.onlyFriend) = {}
            /\ \A i \in DOMAIN myCollection :
                   LET r == myCollection[i]
                   IN  r.master_id # 0 =>
                           /\ Occurrences(result.overlap, r) =
                                  IF r.master_id \in both THEN 1 ELSE 0
                           /\ Occurrences(result.onlyMe, r) =
                                  IF r.master_id \in both THEN 0 ELSE 1
            /\ \A i \in DOMAIN result.friendCollection :
                   LET r == result.friendCollection[i]
                   IN  r.master_id # 0 =>
                           /\ r.master_id \in MastersOf(result.overlap)
                                  <=> r.master_id \in both
                           /\ Occurrences(result.onlyFriend, r) =
                                  IF r.master_id \in both THEN 0 ELSE 1

\* C13 witness: a result with a release in each of the three lists
C13_Witness ==
    /\ cpc = "done" /\ result # NoResult
    /\ Len(result.overlap) > 0
    /\ Len(result.onlyMe) > 0
    /\ Len(result.onlyFriend) > 0

\* the releases of a collection that have a master
WithMaster(coll) == SelectSeq(coll, LAMBDA r : r.master_id # 0)

\* C14: a release without master is in none of overlap, onlyMe, onlyFriend;
\* overlap and onlyMe together are as many as my releases with a master; a
\* release is in overlap only by its master id being one of the friend's,
\* never by its own id
C14_NoMasterNoJoin ==
    (cpc = "done" /\ result # NoResult) =>
        /\ 0 \notin MastersOf(result.overlap) \cup MastersOf(result.onlyMe)
                        \cup MastersOf(result.onlyFriend)
        /\ Len(result.overlap) + Len(result.onlyMe) = Len(WithMaster(myCollection))
        /\ \A i \in DOMAIN result.overlap :
               result.overlap[i].master_id \in JoinIds(result.friendCollection)

\* C14 witness: both collections hold a release without master, and mine is
\* one whose own id is a master id of the friend's collection
C14_Witness ==
    /\ cpc = "done" /\ result # NoResult
    /\ 0 \in MasterIdSet(result.friendCollection)
    /\ \E i \in DOMAIN myCollection :
           /\ myCollection[i].master_id = 0
           /\ myCollection[i].id \in JoinIds(result.friendCollection)

\* C15: when the friend's wantlist fetch succeeded, youCanOffer is, in
\* collection order and once per occurrence, my releases whose master id is a
\* non-zero master id of the friend's wantlist; likewise theyCanOffer with the
\* friend's collection and my wantlist when my wantlist fetch succeeded
C15_OffersMatchWantedMasters ==
    (cpc = "done" /\ result # NoResult) =>
        /\ wantsOutcome.friend = "ok" =>
               /\ OfferedReleases(result.youCanOffer) =
                      Tradeable(myCollection, service.friendWants)
               /\ \A i \in DOMAIN myCollection :
                      Occurrences(OfferedReleases(result.youCanOffer),
                                  myCollection[i]) =
                          IF myCollection[i].master_id
                                 \in JoinIds(service.friendWants)
                            THEN 1 ELSE 0
        /\ wantsOutcome.me = "ok" =>
               OfferedReleases(result.theyCanOffer) =
                   Tradeable(result.friendCollection, service.myWants)

\* C15 witness: both wantlists were fetched, each holds an entry without
\* master, each collection too, and there is an offer in each direction
C15_Witness ==
    /\ cpc = "done" /\ result # NoResult
    /\ wantsOutcome.friend = "ok" /\ wantsOutcome.me = "ok"
    /\ 0 \in MasterIdSet(service.friendWants) \cap MasterIdSet(myCollection)
    /\ 0 \in MasterIdSet(service.myWants) \cap MasterIdSet(result.friendCollection)
    /\ Len(result.youCanOffer) > 0
    /\ Len(result.theyCanOffer) > 0

-----------------------------------------------------------------------------
(* Further properties of the collection route (SpecFetch)                  *)

\* C16: when the request of page 1 is rejected, GET answers with the error
\* "Failed to fetch collection", without releases, and page 1 is the only
\* request ever issued
C16_FirstPageFailureIsFatal ==
    failedPage = 1 =>
        /\ fpc = "done"
        /\ response = ErrorResponse(500, "Failed to fetch collection")
        /\ releases = <<>>
        /\ inflight = {}
        /\ calls = <<[op |-> ReadOp(client), page |-> 1]>>

\* C16 witness: the request of page 1 was rejected
C16_Witness == fpc = "done" /\ failedPage = 1 /\ answers = <<PageRejected>>

\* C17: a success response has fetched = the number of its releases and
\* total = the count page 1 reported; when that count exceeds 500, with pages
\* of at most 100 releases, fetched <= 500 < total
C17_TruncationVisible ==
    (fpc = "done" /\ response.status = 200) =>
        /\ response.fetched = Len(response.releases)
        /\ response.total = answers[1].items
        /\ (/\ response.total > MaxPages * PageSize
            /\ \A i \in DOMAIN answers : answers[i].n <= PageSize) =>
               /\ response.fetched <= MaxPages * PageSize
               /\ response.fetched < response.total

\* C17 witness: a collection of more than 500 releases answered with 500 of
\* them
C17_Witness ==
    /\ fpc = "done" /\ response.status = 200
    /\ response.total > MaxPages * PageSize
    /\ response.fetched = MaxPages * PageSize

\* the index of the first rejected answer, 0 when there is none
FirstRejected(as) ==
    IF \E i \in DOMAIN as : ~as[i].ok
      THEN CHOOSE i \in DOMAIN as : ~as[i].ok /\ \A j \in 1..(i - 1) : as[j].ok
      ELSE 0

\* the releases of the answers 1..k, in page order
RECURSIVE Gathered(_, _)
Gathered(as, k) ==
    IF k = 0 THEN <<>> ELSE Gathered(as, k - 1) \o PageItems(k, as[k].n)

\* the paginated fetch as a function of the page answers alone, whichever
\* reader obtained them: the pages it requests
PagesRequested(as) ==
    IF FirstRejected(as) > 0
      THEN [i \in 1..FirstRejected(as) |-> i]
      ELSE [i \in 1..PagesWanted(as[1].items) |-> i]

\* and what it returns
FetchOutcome(as) ==
    IF FirstRejected(as) > 0
      THEN ErrorResponse(500, "Failed to fetch collection")
      ELSE [status |-> 200,
            releases |-> Gathered(as, Len(as)),
            total |-> as[1].items,
            fetched |-> Len(Gathered(as, Len(as)))]

\* C20: a finished fetch has requested the pages, and returned the releases,
\* total and fetched, that the page answers alone determine, be it through
\* getCollection or through getPublicCollection; every request of a run goes
\* to the read operation of its variant
C20_VariantsAgreeOnAnswers ==
    /\ \A i \in DOMAIN calls : calls[i].op = ReadOp(client)
    /\ (fpc = "done" /\ calls # <<>>) =>
           /\ [i \in DOMAIN calls |-> calls[i].page] = PagesRequested(answers)
           /\ Len(answers) = Len(calls)
           /\ response = FetchOutcome(answers)

\* C20 witness: the public variant read three pages, the last one rejected,
\* or read a collection of more than 500 releases to the end
C20_Witness ==
    /\ fpc = "done"
    /\ client = "public"
    /\ \/ Len(answers) = 3 /\ failedPage = 3
       \/ response.status = 200 /\ Len(answers) = MaxPages

-----------------------------------------------------------------------------
(* Properties of the three server routes (SpecRoutes)                      *)

NotAuthenticated == ErrorResponse(401, "Not authenticated")

ConfigError == ErrorResponse(500, "Discogs credentials not configured")

\* C18: without session tokens, the collection route reads through
\* getPublicCollection only and, with credentials configured and a username
\* given, answers with a collection unless a page request is rejected; the
\* recommendation and release routes issue no catalog call and, with
\* credentials configured and a numeric release id, answer "Not authenticated"
C18_PublicPathUsableWithoutSession ==
    ~sessionTokens =>
        /\ \A i \in DOMAIN calls : calls[i].op = "getPublicCollection"
        /\ response # NotAuthenticated
        /\ (fpc = "done" /\ consumerCreds) =>
               \/ response = ErrorResponse(400, "Username is required")
               \/ failedPage > 0 /\ calls # <<>>
               \/ /\ response.status = 200
                  /\ calls # <<>>
                  /\ response.releases = releases
        /\ searchCalls = <<>> /\ rpc \in {"idle", "done"}
        /\ (rpc = "done" /\ consumerCreds) => rresponse = NotAuthenticated
        /\ relCalls = <<>> /\ relpc \in {"idle", "done"}
        /\ (relpc = "done" /\ consumerCreds /\ ~IsNaN(releaseId)) =>
               relResponse = NotAuthenticated

\* C18 witness: without session tokens, a collection of several pages was
\* returned
C18_Witness ==
    /\ ~sessionTokens
    /\ fpc = "done"
    /\ response.status = 200
    /\ Len(calls) >= 2
    /\ Len(response.releases) > 0

\* C19 as stated: without consumer credentials no route issues a catalog
\* call, and every request ends at once with the configuration error
C19_ConfigErrorInEveryRoute ==
    ~consumerCreds =>
        /\ calls = <<>> /\ searchCalls = <<>> /\ relCalls = <<>>
        /\ fpc # "idle" => fpc = "done" /\ response = ConfigError
        /\ rpc # "idle" => rpc = "done" /\ rresponse = ConfigError
        /\ relpc # "idle" => relpc = "done" /\ relResponse = ConfigError

\* C19 amended: without consumer credentials no route issues a catalog call,
\* and every request ends at once, whatever the session: with the
\* configuration error in the collection and recommendation routes, and in
\* the release route with "Invalid release ID" when the id is not a number
\* and with the configuration error otherwise
C19_ConfigErrorAfterIdCheck ==
    ~consumerCreds =>
        /\ calls = <<>> /\ searchCalls = <<>> /\ relCalls = <<>>
        /\ fpc # "idle" => fpc = "done" /\ response = ConfigError
        /\ rpc # "idle" => rpc = "done" /\ rresponse = ConfigError
        /\ relpc # "idle" =>
               /\ relpc = "done"
               /\ relResponse = IF IsNaN(releaseId)
                                  THEN ErrorResponse(400, "Invalid release ID")
                                  ELSE ConfigError

\* C19 witness: a release request with a numeric id, a session and no
\* consumer credentials has ended
C19_Witness ==
    /\ ~consumerCreds
    /\ sessionTokens
    /\ relpc = "done"
    /\ ~IsNaN(releaseId)

-----------------------------------------------------------------------------
(* Properties of the genre selection (SpecAnalyze)                         *)

\* the names of the first two entries of the tally, in tally order, whose name
\* is a major genre
FirstTwoMajors(gs) ==
    LET idx == {i \in DOMAIN gs : \E k \in DOMAIN MAJOR_GENRES :
                                     MAJOR_GENRES[k] = gs[i].name}
        firstTwo == {i \in idx : Cardinality({j \in idx : j < i}) < 2}
        ordered == SelectSeq([i \in DOMAIN gs |-> i], LAMBDA i : i \in firstTwo)
    IN  [k \in DOMAIN ordered |-> gs[ordered[k]].name]

NoDuplicates(s) == \A i, j \in DOMAIN s : i # j => s[i] # s[j]

-----------------------------------------------------------------------------
(* Properties of the recommendation response (SpecRec)                     *)

\* C26: in a success response every gap is among analyzedGenres and was
\* searched, every bucket's genre is among analyzedGenres, no two buckets
\* have the same genre, and a bucket carries the gap reason exactly when its
\* genre is a gap, also when that genre is one of the top genres
C26_ResponseConsistent ==
    (rpc = "done" /\ rresponse.status = 200) =>
        LET recs == rresponse.recommendations
        IN  /\ Range(rresponse.gaps) \subseteq Range(rresponse.analyzedGenres)
            /\ Range(rresponse.gaps) \subseteq Range(searchCalls)
            /\ \A i \in DOMAIN recs :
                   /\ recs[i].genre \in Range(rresponse.analyzedGenres)
                   /\ \A j \in DOMAIN recs : i # j => recs[i].genre # recs[j].genre
                   /\ recs[i].reason = "Expand your horizons"
                          <=> recs[i].genre \in Range(rresponse.gaps)
                   /\ recs[i].reason = "More of what you love"
                          <=> recs[i].genre \notin Range(rresponse.gaps)

\* C26 witness: a success response with a bucket for a genre that is both a
\* gap and a top genre, and a bucket for a genre that is no gap
C26_Witness ==
    /\ rpc = "done" /\ rresponse.status = 200
    /\ \E i, j \in DOMAIN rresponse.recommendations :
           /\ rresponse.recommendations[i].genre \in Range(rresponse.gaps)
           /\ rresponse.recommendations[i].genre \in Range(FirstTwoMajors(genres))
           /\ rresponse.recommendations[j].genre \notin Range(rresponse.gaps)

-----------------------------------------------------------------------------
(* Further properties of the friend comparison (SpecTrade, SpecCompare)    *)

\* the entries of a wantlist that come before entry w
EarlierWants(wants, w) ==
    {wants[j] : j \in {j \in DOMAIN wants :
                          \E i \in DOMAIN wants : wants[i] = w /\ j < i}}

\* an opportunity pairs its release with the first entry, in wantlist order, of
\* the same master id
PairsFirstWant(offer, wants) ==
    /\ offer.matchedWant # Undefined
    /\ offer.matchedWant \in Range(wants)
    /\ offer.matchedWant.master_id = offer.release.master_id
    /\ \A w \in EarlierWants(wants, offer.matchedWant) :
           w.master_id # offer.release.master_id

\* C24: every opportunity of youCanOffer pairs its release with the first
\* entry of the friend's wantlist of the same master id, every opportunity of
\* theyCanOffer with the first such entry of my wantlist; matchedWant is
\* never undefined
C24_FirstMatchingWant ==
    (cpc = "done" /\ result # NoResult) =>
        /\ \A i \in DOMAIN result.youCanOffer :
               PairsFirstWant(result.youCanOffer[i], service.friendWants)
        /\ \A i \in DOMAIN result.theyCanOffer :
               PairsFirstWant(result.theyCanOffer[i], service.myWants)

\* C24 witness: in each direction an opportunity whose master id is that of
\* two entries of the wantlist
C24_Witness ==
    /\ cpc = "done" /\ result # NoResult
    /\ \E i \in DOMAIN result.youCanOffer :
           Occurrences([k \in DOMAIN service.friendWants |->
                            service.friendWants[k].master_id],
                       result.youCanOffer[i].release.master_id) = 2
    /\ \E i \in DOMAIN result.theyCanOffer :
           Occurrences([k \in DOMAIN service.myWants |->
                            service.myWants[k].master_id],
                       result.theyCanOffer[i].release.master_id) = 2

\* C25: the score is an integer from 0 to 100 for every pair of collections,
\* and 0 when they have no master id in common or no master id at all; so is
\* the score of every result
C25_ScoreRange ==
    /\ CompatibilityScore(myCollection, service.collection) \in 0..100
    /\ JoinIds(myCollection) \cap JoinIds(service.collection) = {} =>
           CompatibilityScore(myCollection, service.collection) = 0
    /\ JoinIds(myCollection) \cup JoinIds(service.collection) = {} =>
           CompatibilityScore(myCollection, service.collection) = 0
    /\ (cpc = "done" /\ result # NoResult) =>
           /\ result.compatibilityScore \in 0..100
           /\ JoinIds(myCollection) \cap JoinIds(result.friendCollection) = {} =>
                  result.compatibilityScore = 0

\* C25 witness: a result for two collections that hold masters but none in
\* common
C25_Witness ==
    /\ cpc = "done" /\ result # NoResult
    /\ JoinIds(myCollection) # {}
    /\ JoinIds(result.friendCollection) # {}
    /\ JoinIds(myCollection) \cap JoinIds(result.friendCollection) = {}

-----------------------------------------------------------------------------
(* Properties of the candidates of a bucket (SpecBuckets)                  *)

\* the master id a search result resolves to: master_id, or the raw id when
\* master_id is absent
Resolved(r) == IF r.master_id = 0 THEN r.id ELSE r.master_id

\* the results of an answer whose resolved master id is not owned
NotOwned(rs) == SelectSeq(rs, LAMBDA r : Resolved(r) \notin ownedSet)

\* what the search of a bucket's genre answered
AnswerOf(bucket) == outcome[IndexOfGenre(bucket.genre)].results

\* C22: every bucket of a response holds 1 to 8 candidates, which are the
\* first 8 results of its search, in result order, whose resolved master id is
\* not owned; no candidate's masterId is owned; a search of which every
\* result is owned leaves no bucket
C22_BucketsHoldFirstEightNotOwned ==
    (rpc = "done" /\ rresponse.status = 200) =>
        LET recs == rresponse.recommendations
        IN  /\ \A b \in DOMAIN recs :
                   LET kept == NotOwned(AnswerOf(recs[b]))
                       n == IF Len(kept) < 8 THEN Len(kept) ELSE 8
                   IN  /\ Len(recs[b].releases) \in 1..8
                       /\ Len(recs[b].releases) = n
                       /\ \A k \in 1..n :
                              /\ recs[b].releases[k].id = kept[k].id
                              /\ recs[b].releases[k].masterId = Resolved(kept[k])
                              /\ recs[b].releases[k].masterId \notin ownedSet
            /\ \A i \in DOMAIN genresToSearch :
                   (outcome[i].kind = "ok" /\ NotOwned(outcome[i].results) = <<>>) =>
                       \A b \in DOMAIN recs : recs[b].genre # genresToSearch[i]

\* C22 witness: a bucket of 8 candidates from an answer with more than 8
\* results not owned and an owned one before them, next to a search of
\* which every result is owned
C22_Witness ==
    /\ rpc = "done" /\ rresponse.status = 200
    /\ \E b \in DOMAIN rresponse.recommendations :
           /\ Len(rresponse.recommendations[b].releases) = 8
           /\ Len(NotOwned(AnswerOf(rresponse.recommendations[b]))) > 8
           /\ Resolved(AnswerOf(rresponse.recommendations[b])[1]) \in ownedSet
    /\ \E i \in DOMAIN genresToSearch :
           /\ outcome[i].kind = "ok"
           /\ outcome[i].results # <<>>
           /\ NotOwned(outcome[i].results) = <<>>

\* cs contains the separator " - "
HasSeparator(cs) == \E i \in 1..(Len(cs) - 2) : SubSeq(cs, i, i + 2) = Separator

\* C23: a candidate made from a search result whose title contains " - " has
\* as artist the part before the first " - " and as title the rest; one made
\* from a title without " - " has the raw string as title and
\* "Unknown Artist" as artist
C23_TitleParsing ==
    (rpc = "done" /\ rresponse.status = 200) =>
        \A b \in DOMAIN rresponse.recommendations :
            LET rels == rresponse.recommendations[b].releases
                kept == NotOwned(AnswerOf(rresponse.recommendations[b]))
            IN  \A k \in DOMAIN rels :
                    LET raw == kept[k].title
                    IN  IF HasSeparator(raw)
                          THEN \E i \in 1..(Len(raw) - 2) :
                                   /\ SubSeq(raw, i, i + 2) = Separator
                                   /\ ~HasSeparator(SubSeq(raw, 1, i + 1))
                                   /\ rels[k].artist = SubSeq(raw, 1, i - 1)
                                   /\ rels[k].title = SubSeq(raw, i + 3, Len(raw))
                          ELSE /\ rels[k].title = raw
                               /\ rels[k].artist = UnknownArtist

-----------------------------------------------------------------------------
(* Properties of repeated comparisons (SpecRerun)                          *)

BlankOrSelf(name) ==
    Trim(name) = "" \/ ToLowerCase(name) = ToLowerCase(myUsername)

\* handleSearch is invoked in this step, with what is now in the input field
Invoked ==
    /\ cpc \in {"idle", "done"}
    /\ service' = service
    /\ <<friendUsername', error', cpc', fetchLog'>> #
           <<friendUsername, error, cpc, fetchLog>>

\* C27: a comparison that has set searching ends with searching = false,
\* whichever way it ends, every awaited fetch settling; an invocation with a
\* blank name or my own name leaves searching false and fetches nothing
C27_SearchingEnds ==
    /\ searching ~> ~searching
    /\ [][(Invoked /\ BlankOrSelf(friendUsername')) =>
              /\ ~searching'
              /\ fetchLog' = fetchLog
              /\ cpc' = cpc]_vars
    /\ [](searching <=> cpc \in {"collection", "friendWants", "myWants"})

\* C27 witness: a second comparison has ended on a rejected wantlist fetch
C27_Witness ==
    /\ cpc = "done"
    /\ ~searching
    /\ Runs = 2
    /\ wantsOutcome.friend = "throw"

\* C28: a step that ends a comparison either sets error and leaves the
\* stored result as it was, or stores the result of this comparison and
\* leaves error null; no other step of a comparison changes the result, and
\* a self-comparison sets error and leaves the result
C28_ErrorOrFreshResult ==
    [][/\ (cpc \in {"collection", "friendWants", "myWants"} /\ cpc' = "done") =>
              \/ error' # "null" /\ result' = result
              \/ /\ error' = "null" /\ error = "null"
                 /\ result' # NoResult
                 /\ result'.friendUsername = friendUsername
                 /\ result'.friendCollection = service.collection
       /\ result' # result =>
              cpc \in {"friendWants", "myWants"} /\ cpc' = "done"
       /\ (Invoked /\ ToLowerCase(friendUsername') = ToLowerCase(myUsername)
                   /\ Trim(friendUsername') # "") =>
              error' = "You can't compare with yourself!" /\ result' = result
      ]_vars

\* C28 witness: after a comparison that stored a result, the next one failed
\* on an empty collection and the result is still there
C28_Witness ==
    /\ cpc = "done"
    /\ Runs = 2
    /\ error = "Friend's collection is empty or private"
    /\ result # NoResult
    /\ result.friendCollection # service.collection

-----------------------------------------------------------------------------
(* Properties of the country fetch (SpecCountry)                           *)

\* an invocation requests the releases of its batch in order, so at most 50,
\* one at a time, none with a country recorded when it was invoked, and it
\* ends only after the whole batch, failed requests included
BatchDiscipline ==
    /\ Len(issued) <= BatchLimit
    /\ Cardinality(outstanding) <= 1
    /\ fetching => \A i \in DOMAIN issued : issued[i] \notin DOMAIN countryData
    /\ issued = SubSeq(batch, 1, Len(issued))
    /\ ypc = "idle" => Len(issued) = Len(batch)

\* every release of the collection has been requested at least once
AllRequested == requested = Range(releaseIds)

\* C29: an invocation requests at most 50 releases, one at a time, each
\* without recorded country, and a failed request does not end the batch;
\* invoking again whenever the button is enabled gets every release of the
\* collection requested at least once, unless some request failed
C29_BatchesMakeProgress == []BatchDiscipline /\ <>(anyFailed \/ AllRequested)

====
